---- MODULE Spec2Model ----
(***************************************************************************)
(* Raziel chord verifier: the inference worker (chordWorker.ts), the       *)
(* controller hook (useChordVerifier) and the two message channels between *)
(* them, as one state machine.                                             *)
(*                                                                         *)
(* Times are performance.now() milliseconds; a verdict's field tMs is the  *)
(* millisecond value the worker divides by 1000 to obtain t.  Saliences    *)
(* are hundredths (0.2 is 20); an averaged salience is kept as the exact   *)
(* fraction num/den.                                                       *)
(***************************************************************************)
EXTENDS Integers, Sequences, FiniteSets, TLC

\* ------------------------------------------------------------------ bounds
ClockStep == 260
MaxClock == 600
MaxInbox == 1
MaxOutbox == 3
RingCap == 3
MaxBlock == 2
MaxWritten == 5
MaxMidi == 13
MaxOctaves == 2

\* Events of the longest song, and verdicts counted in the statistics.
MaxEvents == 3

MaxAttempts == 4

\* Tick lists given to the aggregator in one call, and notes of one list.
MaxLists == 2

MaxNotes == 2

\* start() calls suspended at an await at the same time.
MaxStarts == 2

\* The window of the model, 43844 samples in the source, in samples the check
\* can enumerate; and the longest buffer given to the adapter.
MODEL_WINDOW_SAMPLES == 3

MaxAudio == 5

\* ------------------------------------------------------- program constants
missCooldownMs == 250
MAX_BUFFERED_TICKS == 5
DefaultFramesConfirm == 3
DefaultSalienceThreshold == 20
MATCH_DEBOUNCE_MS == 200
DefaultNoteSalience == 50

NoK == -1
NoPc == -1
NoTime == -1
NoSalience == -1

\* ------------------------------------------------------------------ inputs
NullSpec == [name |-> "null", pcs |-> <<>>, K |-> NoK]
EMinor == [name |-> "E minor", pcs |-> <<4, 7, 11>>, K |-> 2]
AMinor == [name |-> "A minor", pcs |-> <<0, 4, 9>>, K |-> NoK]
ExpectedSet == {EMinor, AMinor}

PolicySet == {"K_OF_N"}
FramesConfirmSet == {1, DefaultFramesConfirm}
CentsTolSet == {50}
TransposeSet == {0}

\* A note: midi is the whole part of its MIDI number and frac the hundredths
\* above it; salience in hundredths, NoSalience when absent.
\* What the adapter can return for one window (its midi is rounded, its
\* salience the amplitude): silence, or E3 + G3 + B3.
Silent == <<>>
EMinorNotes == << [midi |-> 52, frac |-> 0, salience |-> 80],
                 [midi |-> 55, frac |-> 0, salience |-> 80],
                 [midi |-> 59, frac |-> 0, salience |-> 80] >>
NoteLists == {Silent, EMinorNotes}

\* The payloads useChordVerifier posts: acceptInversions is always true there.
HookPayloads ==
  [expected : ExpectedSet, policy : PolicySet, centsTol : CentsTolSet,
   framesConfirm : FramesConfirmSet, transposeSemitones : TransposeSet,
   acceptInversions : {TRUE}]

NoPayload ==
  [expected |-> NullSpec, policy |-> "K_OF_N", centsTol |-> 0,
   framesConfirm |-> 0, transposeSemitones |-> 0, acceptInversions |-> TRUE]

InitMsg == [type |-> "INIT", payload |-> NoPayload]
StopMsg == [type |-> "STOP", payload |-> NoPayload]
SetExpectedMsg(p) == [type |-> "SET_EXPECTED", payload |-> p]

\* ----------------------------------------------------------------- helpers
Min(a, b) == IF a <= b THEN a ELSE b

Range(s) == {s[i] : i \in DOMAIN s}

Last(s) == s[Len(s)]

SeqsUpTo(S, n) == UNION {[1..k -> S] : k \in 0..n}

RECURSIVE Flatten(_)
Flatten(buffer) ==
  IF buffer = <<>> THEN <<>> ELSE Head(buffer) \o Flatten(Tail(buffer))

\* Variant: the key is the MIDI number cut to its whole part.
MathFloor(note) == note.midi

\* Math.round(note.midi): halves go up.
MathRound(note) == IF note.frac >= 50 THEN note.midi + 1 ELSE note.midi

\* note.salience ?? 0.5
SalienceOf(note) == IF note.salience = NoSalience THEN DefaultNoteSalience ELSE note.salience

RECURSIVE SumSalience(_, _)
SumSalience(notes, key) ==
  IF notes = <<>> THEN 0
  ELSE (IF MathRound(Head(notes)) = key THEN SalienceOf(Head(notes)) ELSE 0)
       + SumSalience(Tail(notes), key)

RECURSIVE CountKey(_, _)
CountKey(notes, key) ==
  IF notes = <<>> THEN 0
  ELSE (IF MathRound(Head(notes)) = key THEN 1 ELSE 0) + CountKey(Tail(notes), key)

\* JavaScript's % keeps the sign of the dividend.
JsRem(a, n) == IF a >= 0 THEN a % n ELSE -((n - (a % n)) % n)

\* Variant: the remainder not brought back into 0..11.
PitchClassRem(midi, transpose) == JsRem(midi + transpose, 12)

midiToPitchClass(midi, transpose) == JsRem(JsRem(midi + transpose, 12) + 12, 12)

mapCentsTolToSalience(centsTol) ==
  IF centsTol <= 25 THEN 40 ELSE IF centsTol <= 50 THEN 30 ELSE 20

\* One note per MIDI key of the retained lists, salience = sum / count.
aggregateRecentNotes(buffer) ==
  LET all == Flatten(buffer)
      keys == {MathRound(all[i]) : i \in DOMAIN all}
  IN { [midi |-> k, num |-> SumSalience(all, k), den |-> CountKey(all, k)] : k \in keys }

\* ------------------------------------------------------------------- state
VARIABLES
  \* useChordVerifier: React state and refs (a ref is TRUE when non-null)
  status, acRef, mediaStreamRef, sourceNodeRef, workletNodeRef, ringBufferRef,
  workerRef,
  onmessage,      \* worker.onmessage is set on the referenced worker
  startPc,        \* the pending start() calls, oldest first: the await each is suspended
                  \* at (getUserMedia, addModule) and (history) whether stop() was called since it began
  orphans,        \* whether a worker, a media stream, is alive that no ref points to
  \* the two message channels
  inbox,          \* controller -> worker, not yet handled
  toMain,         \* worker -> controller: the verdicts not yet delivered, their type and
                  \* (history) the expected chord of the worker when it posted them
  \* the worker: its lifetime and the module state of chordWorker.ts
  wLife,          \* none, running, closing (terminate() called, not yet stopped)
  reader, tickHandle, expected, policy, framesConfirm, salienceThreshold,
  transposeSemitones, acceptInversions, confirmCounter, isProcessing,
  lastMissTs, recentEvents,
  session,        \* basicPitchAdapter.sessionPromise: none, pending, ok, failed
  inflight,       \* processTick calls suspended at the await, in start order
  clock,          \* performance.now() of the worker
  \* history
  out,            \* type and timestamp of the verdicts of the latest posting step, until the next pass starts
  prevT,          \* timestamp of the last timestamped verdict posted before those of out
  lastMiss,       \* the latest CHORD_MISS posted, with the spec it was computed for
  prevMissT,      \* timestamp of the CHORD_MISS posted before lastMiss
  passRun,        \* passing evaluations in a row since the last fail, Match or SET_EXPECTED
  lastMatch,      \* if the latest evaluation posted CHORD_MATCH: passRun with it, framesConfirm; until the next pass starts
  lastEval,       \* the latest evaluateChord call, until the next pass starts: spec at pass start,
                  \* spec, policy and transposition used, notes of the tick, pitch classes kept, result,
                  \* whether it posted CHORD_MATCH after a timer tick was dropped during its pass,
                  \* whether the push before it dropped the oldest list of the tick history
  matchedRun,     \* CHORD_MATCH was posted, and since then every evaluation passed and no SET_EXPECTED was handled
  lastMatchT,     \* while matchedRun: the timestamp of the latest CHORD_MATCH
  lastSet,        \* the latest SET_EXPECTED handled, until the next evaluation: its payload, the counter it found
  droppedTick,    \* a timer tick was dropped during the pass in flight
  idleTick,       \* a timer tick found no reader or no expected chord, since the worker started
  stopHandled,    \* the worker handled STOP
  startedAfterStop, completedAfterStop,
  deliveredWhile, \* the statuses under which onResult was given a verdict
  stopsInRow,     \* stop() calls since the last other controller step (capped at 2)
  \* the shared ring buffer: header, samples, the write() and the readLatest() in progress
  capacity,       \* i32[1]
  writeIndex,     \* i32[0]
  data,           \* f32 / data: slot -> sample
  wr,             \* write(): pc (idle, loop), w as loaded, samples, loop index i
  rd,             \* readLatest(): pc (idle, loop, done), samples, writeIdx, loop index i
  target,         \* the target array of readLatest()
  \* history of the ring buffer
  published,      \* the samples of the completed write() calls, in order (the latest capacity of them)
  written,        \* samples handed to write() so far
  rdExpect,       \* at the index load of readLatest(): the latest rd.samples published samples, zero-padded
  rdOverlap,      \* a step of write() ran since the readLatest() in progress began
  \* a call of a pure function of utils/pitch: where it is, its arguments, what it returned
  callPc, callArgs, callResult,
  \* usePracticeSession: React state (the log, which is only displayed, is left out)
  songStatus,     \* songState.status: loading, ready, error
  totalEvents,    \* songState.song.events.length when ready, else 0
  currentIndex, stats, isComplete,
  effectsFor,     \* PracticeScreen: the cursor index and isComplete its effects last ran for
  \* history of the practice session
  registered      \* type of the latest verdict given to registerResult since the song loaded or was reset

refVars == <<acRef, mediaStreamRef, sourceNodeRef, workletNodeRef, ringBufferRef, workerRef, onmessage>>

ctlVars == <<status, refVars, startPc, orphans>>

chanVars == <<inbox, toMain>>

cfgVars == <<expected, policy, framesConfirm, salienceThreshold, transposeSemitones, acceptInversions>>

modVars == <<reader, tickHandle, cfgVars, confirmCounter, isProcessing, lastMissTs, recentEvents, session, inflight, clock>>

wVars == <<wLife, modVars>>

emitVars == <<out, prevT, lastMiss, prevMissT>>

evalVars == <<passRun, lastMatch, lastEval, lastSet, matchedRun, lastMatchT>>

stopVars == <<stopHandled, startedAfterStop, completedAfterStop>>

wHistVars == <<emitVars, evalVars, droppedTick, idleTick, stopVars>>

histVars == <<wHistVars, deliveredWhile, stopsInRow>>

appVars == <<ctlVars, chanVars, wVars, histVars>>

ringVars == <<capacity, writeIndex, data, wr, rd, target, published, written, rdExpect, rdOverlap>>

callVars == <<callPc, callArgs, callResult>>

practiceVars == <<songStatus, totalEvents, currentIndex, stats, isComplete, effectsFor, registered>>

libVars == <<ringVars, callVars>>

nonAppVars == <<libVars, practiceVars>>

nonRingVars == <<appVars, callVars, practiceVars>>

nonCallVars == <<appVars, ringVars, practiceVars>>

nonPracticeVars == <<appVars, libVars>>

vars == <<appVars, ringVars, callVars, practiceVars>>

NoEval ==
  [startSpec |-> NullSpec, usedSpec |-> NullSpec, policy |-> "K_OF_N",
   transpose |-> 0, inversions |-> TRUE, heard |-> <<>>, pcs |-> {}, lowestPc |-> NoPc,
   passes |-> FALSE, matchAfterDrop |-> FALSE, shifted |-> FALSE]

NoMatch == [run |-> 0, frames |-> 0]

NoSet == [payload |-> NoPayload, found |-> 0]

NoMiss == [tMs |-> NoTime, matched |-> <<>>, missing |-> <<>>, spec |-> NullSpec]

\* --------------------------------------------------- evaluateChord, pure part
\* notes.forEach: a note below the salience threshold is skipped.
KeptNotes(notes) == {n \in notes : ~(n.num < salienceThreshold * n.den)}

pcsInWindowOf(notes) == {midiToPitchClass(n.midi, transposeSemitones) : n \in KeptNotes(notes)}

lowestPcOf(notes) ==
  LET kept == KeptNotes(notes)
  IN IF kept = {} THEN NoPc
     ELSE LET low == CHOOSE n \in kept : \A m \in kept : n.midi <= m.midi
          IN midiToPitchClass(low.midi, transposeSemitones)

matchedOf(spec, pcsInWindow) == SelectSeq(spec.pcs, LAMBDA pc : pc \in pcsInWindow)

\* Variant: every pitch class of the spec reported missing.
AllPcs(spec, pcsInWindow) == spec.pcs

missingOf(spec, pcsInWindow) == SelectSeq(spec.pcs, LAMBDA pc : pc \notin pcsInWindow)

\* Variant: one expected pitch class is always enough.
RequiredOne(spec) == 1

requiredOf(spec) == IF spec.K # NoK THEN spec.K ELSE Min(2, Len(spec.pcs))

FirstPc(spec) == IF Len(spec.pcs) > 0 THEN spec.pcs[1] ELSE NoPc

\* Variant: every policy decided as K_OF_N.
PolicyAsKOfN(pcsInWindow, lowestPc) == Len(matchedOf(expected, pcsInWindow)) >= requiredOf(expected)

\* The switch on policy; !!lowestPc is false for null and for pitch class 0.
policyPasses(pcsInWindow, lowestPc) ==
  LET kOfN == Len(matchedOf(expected, pcsInWindow)) >= requiredOf(expected)
  IN CASE policy = "K_OF_N" -> kOfN
       [] policy = "INCLUDES_TARGET" -> FirstPc(expected) \in pcsInWindow
       [] policy = "BASS_PRIORITY" ->
            kOfN /\ (lowestPc # NoPc /\ lowestPc # 0 /\ lowestPc = FirstPc(expected))
       [] OTHER -> kOfN

\* Variant: acceptInversions is not looked at.
InversionsIgnored(pcsInWindow, lowestPc) == policyPasses(pcsInWindow, lowestPc)

passesPolicyOf(pcsInWindow, lowestPc) ==
  LET base == policyPasses(pcsInWindow, lowestPc)
  IN IF ~acceptInversions /\ lowestPc # NoPc
     THEN base /\ lowestPc = FirstPc(expected)
     ELSE base

\* Variant: the Match one passing tick early.
MatchDueEarly(counter) == counter >= framesConfirm - 1

MatchDue(counter) == counter >= framesConfirm

CounterAfterMatch == 0

\* Variant: no cooldown.
AlwaysDue(timestamp) == TRUE

MissDue(timestamp) == timestamp - lastMissTs > missCooldownMs

Verdict(type, tMs) ==
  [type |-> type, tMs |-> tMs, notes |-> <<>>, matched |-> <<>>,
   missing |-> <<>>, inferenceMs |-> 0]

\* evaluateChord(notes, timestamp) on the worker's state: whether the tick
\* passes, the verdicts posted, and the confirmCounter and lastMissTs left.
evaluateChord(notes, timestamp) ==
  LET pcsInWindow == pcsInWindowOf(notes)
      lowestPc == lowestPcOf(notes)
      matched == matchedOf(expected, pcsInWindow)
      missing == missingOf(expected, pcsInWindow)
      passes == passesPolicyOf(pcsInWindow, lowestPc)
      isMatch == passes /\ MatchDue(confirmCounter + 1)
      isMiss == ~passes /\ MissDue(timestamp)
  IN [ passes |-> passes,
       isMatch |-> isMatch,
       posts |-> IF isMatch THEN << Verdict("CHORD_MATCH", timestamp) >>
                 ELSE IF isMiss
                 THEN << [Verdict("CHORD_MISS", timestamp)
                            EXCEPT !.matched = matched, !.missing = missing] >>
                 ELSE <<>>,
       counter |-> IF passes
                   THEN (IF isMatch THEN CounterAfterMatch ELSE confirmCounter + 1)
                   ELSE 0,
       lastMiss |-> IF isMiss THEN timestamp ELSE lastMissTs ]

\* ------------------------------------------------------------ the worker
\* The module-level initialisers of chordWorker.ts and of the adapter.
FreshModuleAt(now) ==
  /\ reader = FALSE /\ tickHandle = FALSE
  /\ expected = NullSpec /\ policy = "K_OF_N"
  /\ framesConfirm = DefaultFramesConfirm
  /\ salienceThreshold = DefaultSalienceThreshold
  /\ transposeSemitones = 0 /\ acceptInversions = TRUE
  /\ confirmCounter = 0 /\ isProcessing = FALSE /\ lastMissTs = 0
  /\ recentEvents = <<>> /\ session = "none" /\ inflight = <<>>
  /\ clock = now

FreshModule == FreshModuleAt(0)

FreshHistory ==
  /\ out = <<>> /\ prevT = NoTime /\ lastMiss = NoMiss /\ prevMissT = NoTime
  /\ passRun = 0 /\ lastMatch = NoMatch /\ lastEval = NoEval /\ lastSet = NoSet
  /\ matchedRun = FALSE /\ lastMatchT = NoTime
  /\ droppedTick = FALSE /\ idleTick = FALSE /\ stopHandled = FALSE
  /\ startedAfterStop = FALSE /\ completedAfterStop = FALSE

\* The same, as the state a step leaves: a worker just created, or gone.
ResetWorker ==
  /\ reader' = FALSE /\ tickHandle' = FALSE
  /\ expected' = NullSpec /\ policy' = "K_OF_N"
  /\ framesConfirm' = DefaultFramesConfirm
  /\ salienceThreshold' = DefaultSalienceThreshold
  /\ transposeSemitones' = 0 /\ acceptInversions' = TRUE
  /\ confirmCounter' = 0 /\ isProcessing' = FALSE /\ lastMissTs' = 0
  /\ recentEvents' = <<>> /\ session' = "none" /\ inflight' = <<>>
  /\ clock' = 0
  /\ out' = <<>> /\ prevT' = NoTime /\ lastMiss' = NoMiss /\ prevMissT' = NoTime
  /\ passRun' = 0 /\ lastMatch' = NoMatch /\ lastEval' = NoEval /\ lastSet' = NoSet
  /\ matchedRun' = FALSE /\ lastMatchT' = NoTime
  /\ droppedTick' = FALSE /\ idleTick' = FALSE /\ stopHandled' = FALSE
  /\ startedAfterStop' = FALSE /\ completedAfterStop' = FALSE

Alive == wLife \in {"running", "closing"}

RECURSIVE LastStamp(_, _)
LastStamp(evs, default) ==
  IF evs = <<>> THEN default
  ELSE IF Last(evs).tMs # NoTime THEN Last(evs).tMs
  ELSE LastStamp(SubSeq(evs, 1, Len(evs) - 1), default)

Misses(evs) == SelectSeq(evs, LAMBDA v : v.type = "CHORD_MISS")

\* Messages reach worker.onmessage while the worker is not terminated.
Delivering == wLife = "running" /\ onmessage

CanPost(n) == Delivering => Len(toMain) + n <= MaxOutbox

postMessageSafe(evs) ==
  /\ toMain' = IF Delivering
                THEN toMain \o [i \in DOMAIN evs |-> [type |-> evs[i].type, spec |-> expected]]
                ELSE toMain
  /\ out' = [i \in DOMAIN evs |-> [type |-> evs[i].type, tMs |-> evs[i].tMs]]
  /\ prevT' = LastStamp(out, prevT)
  /\ IF Misses(evs) # <<>>
     THEN /\ lastMiss' = [tMs |-> Last(Misses(evs)).tMs,
                          matched |-> Last(Misses(evs)).matched,
                          missing |-> Last(Misses(evs)).missing,
                          spec |-> expected]
          /\ prevMissT' = lastMiss.tMs
     ELSE UNCHANGED <<lastMiss, prevMissT>>

reportError == postMessageSafe(<< Verdict("ERROR", NoTime) >>)

\* onmessage, case INIT: the reader, ensureWindow, adapter init, startTicking.
HandleInit ==
  /\ Alive /\ inbox # <<>> /\ Head(inbox).type = "INIT"
  /\ inbox' = Tail(inbox)
  /\ reader' = TRUE
  /\ session' = IF session = "none" THEN "pending" ELSE session
  /\ tickHandle' = TRUE
  /\ UNCHANGED <<ctlVars, toMain, wLife, cfgVars, confirmCounter, isProcessing, lastMissTs, recentEvents, inflight, clock, histVars>>
  /\ UNCHANGED nonAppVars

\* Variant: SET_EXPECTED leaves the counter.
KeepCounter == confirmCounter

CounterAfterSetExpected == 0

\* onmessage, case SET_EXPECTED.
\* Variant: the tick history is emptied with the counter.
ClearedOnSetExpected(history) == <<>>

\* case "SET_EXPECTED" assigns neither recentEvents nor lastMissTs.
HistoryAfterSetExpected(history) == history

HandleSetExpected ==
  /\ Alive /\ inbox # <<>> /\ Head(inbox).type = "SET_EXPECTED"
  /\ LET p == Head(inbox).payload
     IN /\ expected' = p.expected
        /\ policy' = p.policy
        /\ framesConfirm' = p.framesConfirm
        /\ transposeSemitones' = p.transposeSemitones
        /\ acceptInversions' = p.acceptInversions
        /\ salienceThreshold' = IF p.centsTol # 0 THEN mapCentsTolToSalience(p.centsTol) ELSE salienceThreshold
        /\ confirmCounter' = CounterAfterSetExpected
        /\ lastSet' = [payload |-> p, found |-> confirmCounter]
        /\ passRun' = 0
        /\ matchedRun' = FALSE
        /\ lastMatchT' = NoTime
  /\ recentEvents' = HistoryAfterSetExpected(recentEvents)
  /\ idleTick' = FALSE
  /\ inbox' = Tail(inbox)
  /\ UNCHANGED <<ctlVars, toMain, wLife, reader, tickHandle, isProcessing, lastMissTs, session, inflight, clock>>
  /\ UNCHANGED <<emitVars, lastMatch, lastEval, droppedTick, stopVars, deliveredWhile, stopsInRow>>
  /\ UNCHANGED nonAppVars

\* Variant: STOP leaves the interval running.
KeepTicking == tickHandle

TickHandleAfterStop == FALSE

\* onmessage, case STOP: clearInterval.
HandleStop ==
  /\ Alive /\ inbox # <<>> /\ Head(inbox).type = "STOP"
  /\ inbox' = Tail(inbox)
  /\ tickHandle' = TickHandleAfterStop
  /\ stopHandled' = TRUE
  /\ UNCHANGED <<ctlVars, toMain, wLife, reader, cfgVars, confirmCounter, isProcessing, lastMissTs, recentEvents, session, inflight, clock>>
  /\ UNCHANGED <<emitVars, evalVars, droppedTick, idleTick, startedAfterStop, completedAfterStop, deliveredWhile, stopsInRow>>
  /\ UNCHANGED nonAppVars

\* InferenceSession.create settles; a rejection reaches the catch of INIT.
AdapterInitOk ==
  /\ Alive /\ session = "pending"
  /\ session' = "ok"
  /\ UNCHANGED <<ctlVars, chanVars, wLife, reader, tickHandle, cfgVars, confirmCounter, isProcessing, lastMissTs, recentEvents, inflight, clock, histVars>>
  /\ UNCHANGED nonAppVars

AdapterInitFail ==
  /\ Alive /\ session = "pending" /\ CanPost(1)
  /\ session' = "failed"
  /\ reportError
  /\ UNCHANGED <<ctlVars, inbox, wLife, reader, tickHandle, cfgVars, confirmCounter, isProcessing, lastMissTs, recentEvents, inflight, clock>>
  /\ UNCHANGED <<evalVars, droppedTick, idleTick, stopVars, deliveredWhile, stopsInRow>>
  /\ UNCHANGED nonAppVars

\* performance.now() moves on.
Advance ==
  /\ Alive /\ clock + ClockStep <= MaxClock
  /\ clock' = clock + ClockStep
  /\ UNCHANGED <<ctlVars, chanVars, wLife, reader, tickHandle, cfgVars, confirmCounter, isProcessing, lastMissTs, recentEvents, session, inflight, histVars>>
  /\ UNCHANGED nonAppVars

\* Variant: no single-flight guard.
AlwaysStart == TRUE

\* if (isProcessing) return;
CanStartPass == ~isProcessing

\* Variant: a dropped tick breaks the run of passing ticks.
ResetOnDrop(counter) == 0

\* if (isProcessing) return; leaves the module state as it is.
CounterAfterDrop(counter) == counter

\* The interval fires while a pass is in flight: processTick returns at once.
TickDrop ==
  /\ Alive /\ tickHandle /\ ~CanStartPass
  /\ confirmCounter' = CounterAfterDrop(confirmCounter)
  /\ droppedTick' = TRUE
  /\ UNCHANGED <<ctlVars, chanVars, wLife, reader, tickHandle, cfgVars, isProcessing, lastMissTs, recentEvents, session, inflight, clock>>
  /\ UNCHANGED <<emitVars, evalVars, idleTick, stopVars, deliveredWhile, stopsInRow>>
  /\ UNCHANGED nonAppVars

\* Variant: the test of the expected chord left out.
ArmedWithoutTarget == reader

\* if (!reader || !expected) return;
Armed == reader /\ expected # NullSpec

\* The interval fires before the first SET_EXPECTED is handled: processTick
\* returns before it reads the ring buffer.
TickIdle ==
  /\ Alive /\ tickHandle /\ CanStartPass /\ ~Armed
  /\ idleTick' = TRUE
  /\ UNCHANGED <<ctlVars, chanVars, wVars, emitVars, evalVars, droppedTick, stopVars, deliveredWhile, stopsInRow>>
  /\ UNCHANGED nonAppVars

\* Variant: the flag is not raised.
FlagLeft == isProcessing

\* isProcessing = true;
ProcessingAfterStart == TRUE

\* processTick up to the await: window read, resample, now, adapter call.
TickStart ==
  /\ Alive /\ tickHandle /\ CanStartPass /\ Armed
  /\ isProcessing' = ProcessingAfterStart
  /\ inflight' = Append(inflight, [now |-> clock, startSpec |-> expected])
  /\ startedAfterStop' = (startedAfterStop \/ stopHandled)
  /\ lastEval' = NoEval
  /\ lastMatch' = NoMatch
  /\ out' = <<>>
  /\ prevT' = LastStamp(out, prevT)
  /\ UNCHANGED <<ctlVars, chanVars, wLife, reader, tickHandle, cfgVars, confirmCounter, lastMissTs, recentEvents, session, clock>>
  /\ UNCHANGED <<lastMiss, prevMissT, passRun, lastSet, matchedRun, lastMatchT, droppedTick, idleTick, stopHandled, completedAfterStop, deliveredWhile, stopsInRow>>
  /\ UNCHANGED nonAppVars

\* Variant: the finally does not lower the flag.
FlagKept == isProcessing

\* finally { isProcessing = false; }
ProcessingAfterPass == FALSE

Without(seq, i) == SubSeq(seq, 1, i - 1) \o SubSeq(seq, i + 1, Len(seq))

\* Variant: pop() in place of shift(), the list just pushed is the one dropped.
PopRecent(notes) ==
  LET pushed == Append(recentEvents, notes)
  IN IF Len(pushed) > MAX_BUFFERED_TICKS THEN recentEvents ELSE pushed

\* recentEvents.push(notes); if (recentEvents.length > MAX_BUFFERED_TICKS) recentEvents.shift();
pushRecent(notes) ==
  LET pushed == Append(recentEvents, notes)
  IN IF Len(pushed) > MAX_BUFFERED_TICKS THEN Tail(pushed) ELSE pushed

\* Variant: the pass ends without its TICK.
NoTickVerdict(now) == <<>>

\* inferenceMs = performance.now() - now; the TICK verdict that ends the pass.
TickVerdict(now) == << [Verdict("TICK", clock) EXCEPT !.inferenceMs = clock - now] >>

\* processTick after the await resolved with notes, and its finally.
PassResolve(i, notes) ==
  /\ Alive /\ i \in DOMAIN inflight /\ session = "ok"
  /\ LET pass == inflight[i]
         recent == pushRecent(notes)
         ev == evaluateChord(aggregateRecentNotes(recent), pass.now)
         posts == << [Verdict("NOTES", pass.now) EXCEPT !.notes = notes] >>
                  \o ev.posts
                  \o TickVerdict(pass.now)
     IN /\ CanPost(Len(posts))
        /\ recentEvents' = recent
        /\ confirmCounter' = ev.counter
        /\ lastMissTs' = ev.lastMiss
        /\ postMessageSafe(posts)
        /\ passRun' = IF ev.passes /\ ~ev.isMatch THEN Min(passRun + 1, DefaultFramesConfirm + 1) ELSE 0
        /\ lastMatch' = IF ev.isMatch THEN [run |-> passRun + 1, frames |-> framesConfirm] ELSE NoMatch
        /\ lastEval' = [startSpec |-> pass.startSpec, usedSpec |-> expected,
                        policy |-> policy, transpose |-> transposeSemitones,
                        inversions |-> acceptInversions,
                        heard |-> notes,
                        pcs |-> pcsInWindowOf(aggregateRecentNotes(recent)),
                        lowestPc |-> lowestPcOf(aggregateRecentNotes(recent)),
                        passes |-> ev.passes,
                        matchAfterDrop |-> (ev.isMatch /\ droppedTick),
                        shifted |-> (Len(recent) <= Len(recentEvents))]
        /\ matchedRun' = (ev.passes /\ (ev.isMatch \/ matchedRun))
        /\ lastMatchT' = IF ev.isMatch THEN pass.now ELSE IF ev.passes THEN lastMatchT ELSE NoTime
  /\ lastSet' = NoSet
  /\ isProcessing' = ProcessingAfterPass
  /\ inflight' = Without(inflight, i)
  /\ droppedTick' = FALSE
  /\ completedAfterStop' = (completedAfterStop \/ stopHandled)
  /\ UNCHANGED <<ctlVars, inbox, wLife, reader, tickHandle, cfgVars, session, clock>>
  /\ UNCHANGED <<idleTick, stopHandled, startedAfterStop, deliveredWhile, stopsInRow>>
  /\ UNCHANGED nonAppVars

\* processTick after the await rejected: the catch, and its finally.
\* Variant: the catch clears the counter.
ResetOnReject(counter) == 0

\* catch (err) { reportError(err); } assigns no module state.
CounterAfterReject(counter) == counter

PassReject(i) ==
  /\ Alive /\ i \in DOMAIN inflight /\ session \in {"ok", "failed"}
  /\ CanPost(1)
  /\ reportError
  /\ isProcessing' = ProcessingAfterPass
  /\ inflight' = Without(inflight, i)
  /\ droppedTick' = FALSE
  /\ completedAfterStop' = (completedAfterStop \/ stopHandled)
  /\ confirmCounter' = CounterAfterReject(confirmCounter)
  /\ UNCHANGED <<ctlVars, inbox, wLife, reader, tickHandle, cfgVars, lastMissTs, recentEvents, session, clock>>
  /\ UNCHANGED <<evalVars, idleTick, stopHandled, startedAfterStop, deliveredWhile, stopsInRow>>
  /\ UNCHANGED nonAppVars

\* The terminated worker stops running; its state is gone.
WorkerExit ==
  /\ wLife = "closing"
  /\ wLife' = "none"
  /\ inbox' = <<>>
  /\ ResetWorker
  /\ UNCHANGED <<ctlVars, toMain, deliveredWhile, stopsInRow>>
  /\ UNCHANGED nonAppVars

\* ------------------------------------------------------- usePracticeSession
NoStats == [matches |-> 0, attempts |-> 0]

NoEffects == [index |-> 0, complete |-> FALSE]

VerdictTypes == {"NOTES", "TICK", "CHORD_MATCH", "CHORD_MISS", "ERROR"}

\* The state of the hook as constructed: the song is loading.
SongLoading ==
  /\ songStatus = "loading" /\ totalEvents = 0
  /\ currentIndex = 0 /\ stats = NoStats /\ isComplete = FALSE
  /\ effectsFor = NoEffects
  /\ registered = "none"

\* The state once loadSong resolved with a song of n events, which is when
\* the Start button is enabled.
SongReady(n) ==
  /\ songStatus = "ready" /\ totalEvents = n
  /\ currentIndex = 0 /\ stats = NoStats /\ isComplete = FALSE
  /\ effectsFor = NoEffects
  /\ registered = "none"

\* loadSong(songPath) resolved with a song of n events.
SongLoaded(n) ==
  /\ songStatus = "loading"
  /\ songStatus' = "ready"
  /\ totalEvents' = n
  /\ currentIndex' = 0
  /\ stats' = NoStats
  /\ isComplete' = FALSE
  /\ effectsFor' = NoEffects
  /\ registered' = "none"
  /\ UNCHANGED nonPracticeVars

\* loadSong(songPath) rejected.
SongFailed ==
  /\ songStatus = "loading"
  /\ songStatus' = "error"
  /\ UNCHANGED <<totalEvents, currentIndex, stats, isComplete, effectsFor, registered>>
  /\ UNCHANGED nonPracticeVars

\* resetSession(): nothing unless the song is ready.
ResetSession ==
  /\ songStatus = "ready"
  /\ currentIndex' = 0
  /\ stats' = NoStats
  /\ isComplete' = FALSE
  /\ registered' = "none"
  /\ UNCHANGED <<songStatus, totalEvents, effectsFor>>
  /\ UNCHANGED nonPracticeVars

\* Variant: the updater of setCurrentIndex without its end-of-song test.
AlwaysAdvance(idx) == idx + 1

\* The updater given to setCurrentIndex on CHORD_MATCH.
IndexAfterMatch(idx) == IF idx + 1 >= totalEvents THEN idx ELSE idx + 1

\* registerResult(event) for an event of the given type: nothing unless the
\* song is ready; the statistics count at most MaxAttempts verdicts.
registerResult(type) ==
  /\ (type \in {"CHORD_MATCH", "CHORD_MISS"} /\ songStatus = "ready") => stats.attempts < MaxAttempts
  /\ IF songStatus # "ready"
       THEN UNCHANGED <<currentIndex, stats, isComplete, registered>>
       ELSE /\ registered' = type
            /\ CASE type = "CHORD_MATCH" ->
                      /\ stats' = [matches |-> stats.matches + 1, attempts |-> stats.attempts + 1]
                      /\ currentIndex' = IndexAfterMatch(currentIndex)
                      /\ isComplete' = (isComplete \/ currentIndex + 1 >= totalEvents)
                 [] type = "CHORD_MISS" ->
                      /\ stats' = [stats EXCEPT !.attempts = stats.attempts + 1]
                      /\ UNCHANGED <<currentIndex, isComplete>>
                 [] OTHER -> UNCHANGED <<currentIndex, stats, isComplete>>
  /\ UNCHANGED <<songStatus, totalEvents, effectsFor>>

\* registerResult called with a verdict of the given type.
RegisterResult(type) ==
  /\ registerResult(type)
  /\ UNCHANGED nonPracticeVars

\* ------------------------------------------------------- useChordVerifier
\* Variant: cleanup() keeps workerRef.
KeepWorkerRef == workerRef

WorkerRefAfterCleanup == FALSE

\* cleanup(), all but its setStatus("idle"): STOP is posted to the worker and
\* the worker terminated (what it had posted is discarded), every ref released.
cleanupFrom(box) ==
  /\ inbox' = IF workerRef THEN Append(box, StopMsg) ELSE box
  /\ wLife' = IF workerRef /\ wLife = "running" THEN "closing" ELSE wLife
  /\ toMain' = IF workerRef THEN <<>> ELSE toMain
  /\ workerRef' = WorkerRefAfterCleanup
  /\ onmessage' = FALSE
  /\ workletNodeRef' = FALSE
  /\ sourceNodeRef' = FALSE
  /\ mediaStreamRef' = FALSE
  /\ acRef' = FALSE
  /\ ringBufferRef' = FALSE

cleanup == cleanupFrom(inbox)

NoOrphans == [worker |-> FALSE, stream |-> FALSE]

\* A start() call suspended at the given await.
PendingStart(pc) == [pc |-> pc, stopped |-> FALSE]

\* stop() cancels no pending start(): each stays suspended where it is.
StopSeen == [i \in DOMAIN startPc |-> [startPc[i] EXCEPT !.stopped = TRUE]]

\* stop(): cleanup() with its setStatus("idle").
Stop ==
  /\ cleanup
  /\ status' = "idle"
  /\ startPc' = StopSeen
  /\ stopsInRow' = Min(stopsInRow + 1, 2)
  /\ UNCHANGED <<orphans, deliveredWhile, modVars, wHistVars>>
  /\ UNCHANGED nonAppVars

\* start() up to its first await; the Start button is enabled when the
\* detector is idle and the song is ready.
StartBegin ==
  /\ status = "idle" /\ Len(startPc) < MaxStarts
  /\ songStatus = "ready"
  /\ status' = "loading"
  /\ acRef' = TRUE
  /\ startPc' = Append(startPc, PendingStart("getUserMedia"))
  /\ stopsInRow' = 0
  /\ UNCHANGED <<mediaStreamRef, sourceNodeRef, workletNodeRef, ringBufferRef, workerRef, onmessage, orphans>>
  /\ UNCHANGED <<chanVars, wVars, wHistVars, deliveredWhile>>
  /\ UNCHANGED nonAppVars

\* getUserMedia of pending start() i resolved: stream, source node and ring
\* buffer, then addModule.  A stream mediaStreamRef pointed at stays alive,
\* pointed at by no ref.
StartMediaResolved(i) ==
  /\ startPc[i].pc = "getUserMedia"
  /\ orphans' = [orphans EXCEPT !.stream = @ \/ mediaStreamRef]
  /\ mediaStreamRef' = TRUE
  /\ sourceNodeRef' = TRUE
  /\ ringBufferRef' = TRUE
  /\ startPc' = [startPc EXCEPT ![i].pc = "addModule"]
  /\ stopsInRow' = 0
  /\ UNCHANGED <<status, acRef, workletNodeRef, workerRef, onmessage>>
  /\ UNCHANGED <<chanVars, wVars, wHistVars, deliveredWhile>>
  /\ UNCHANGED nonAppVars

\* addModule of pending start() i resolved: worklet node, the worker and its
\* onmessage, INIT and SET_EXPECTED posted, setStatus("listening").  The worker
\* variables are those of the worker workerRef points at; a worker it pointed
\* at before is followed no further than its being alive.
StartModuleResolved(i, p) ==
  /\ startPc[i].pc = "addModule"
  /\ orphans' = [orphans EXCEPT !.worker = @ \/ (workerRef /\ wLife = "running")]
  /\ workletNodeRef' = TRUE
  /\ workerRef' = TRUE
  /\ onmessage' = TRUE
  /\ wLife' = "running"
  /\ ResetWorker
  /\ inbox' = << InitMsg, SetExpectedMsg(p) >>
  /\ toMain' = <<>>
  /\ status' = "listening"
  /\ startPc' = Without(startPc, i)
  /\ stopsInRow' = 0
  /\ UNCHANGED <<acRef, mediaStreamRef, sourceNodeRef, ringBufferRef, deliveredWhile>>
  /\ UNCHANGED nonAppVars

\* An await of pending start() i rejected: the catch runs cleanup(), then
\* setStatus("error").
StartRejected(i) ==
  /\ cleanup
  /\ status' = "error"
  /\ startPc' = Without(startPc, i)
  /\ stopsInRow' = 0
  /\ UNCHANGED <<orphans, deliveredWhile, modVars, wHistVars>>
  /\ UNCHANGED nonAppVars

\* setExpected(next) and the effect on [expected, policy, ...]: posted only
\* while a worker is referenced.
SetExpected(p) ==
  /\ workerRef /\ Len(inbox) < MaxInbox
  /\ inbox' = Append(inbox, SetExpectedMsg(p))
  /\ UNCHANGED <<ctlVars, toMain, wVars, histVars>>
  /\ UNCHANGED nonAppVars

\* worker.onmessage: onResult(event.data), which PracticeScreen passes on to
\* registerResult, and on ERROR setStatus("error").
MainOnMessage ==
  /\ toMain # <<>>
  /\ deliveredWhile' = deliveredWhile \cup {status}
  /\ status' = IF Head(toMain).type = "ERROR" THEN "error" ELSE status
  /\ toMain' = Tail(toMain)
  /\ stopsInRow' = 0
  /\ registerResult(Head(toMain).type)
  /\ UNCHANGED <<refVars, startPc, orphans, inbox, wVars, wHistVars>>
  /\ UNCHANGED libVars

\* --------------------------------------------------------- PracticeScreen
\* The chord of event i of the song: E minor and A minor in turn.
SongChord(i) == IF i % 2 = 0 THEN EMinor ELSE AMinor

\* The payload posted for a chord under the defaults of useChordVerifier.
ScreenPayload(spec) ==
  [expected |-> spec, policy |-> "K_OF_N", centsTol |-> 50,
   framesConfirm |-> DefaultFramesConfirm, transposeSemitones |-> 0,
   acceptInversions |-> TRUE]

\* The effects after a render in which currentEvent or isComplete changed:
\* the effect of useChordVerifier on [expected, ...] and setExpected(
\* currentEvent.chordSpec) each post SET_EXPECTED to the referenced worker,
\* then stop() if isComplete.
RunEffects ==
  /\ effectsFor # [index |-> currentIndex, complete |-> isComplete]
  /\ effectsFor' = [index |-> currentIndex, complete |-> isComplete]
  /\ LET retarget == effectsFor.index # currentIndex /\ currentIndex < totalEvents /\ workerRef
         finish == isComplete /\ ~effectsFor.complete
         msg == SetExpectedMsg(ScreenPayload(SongChord(currentIndex)))
         posted == IF retarget THEN inbox \o << msg, msg >> ELSE inbox
     IN /\ retarget => Len(inbox) < MaxInbox
        /\ IF finish
             THEN /\ cleanupFrom(posted)
                  /\ status' = "idle"
                  /\ stopsInRow' = Min(stopsInRow + 1, 2)
                  /\ startPc' = StopSeen
                  /\ UNCHANGED <<orphans, modVars>>
             ELSE /\ inbox' = posted
                  /\ stopsInRow' = 0
                  /\ UNCHANGED <<ctlVars, toMain, wVars>>
  /\ UNCHANGED <<wHistVars, deliveredWhile>>
  /\ UNCHANGED <<songStatus, totalEvents, currentIndex, stats, isComplete, registered>>
  /\ UNCHANGED libVars

\* --------------------------------------------------- the shared ring buffer
\* Int32Array: the largest and the smallest value an element holds.
MaxInt32 == 2147483647

MinInt32 == -MaxInt32 - 1

\* What a Float32Array yields for a store of undefined, and what target held
\* before the call.
NaN == -99

Stale == -98

NoWrite == [pc |-> "idle", w |-> 0, samples |-> <<>>, i |-> 0]

NoRead == [pc |-> "idle", samples |-> 0, available |-> 0, writeIdx |-> 0, i |-> 0]

LastN(seq, n) == IF Len(seq) <= n THEN seq ELSE SubSeq(seq, Len(seq) - n + 1, Len(seq))

ZeroPad(seq, n) == [k \in 1..(n - Len(seq)) |-> 0] \o seq

\* (w + k) % cap for an int32 w and 0 <= k, as JavaScript computes it on
\* numbers (the sum is exact there), with every intermediate value in 32 bits.
RemOfSum(w, k, cap) == IF w >= 0 THEN ((w % cap) + k) % cap ELSE JsRem(w + k, cap)

\* Atomics.store(i32, 0, w + len): the sum converted to int32.
ToInt32(w, len) ==
  IF w > MaxInt32 - len THEN (w - MaxInt32 - 1) + (len - MaxInt32 - 1) ELSE w + len

\* SharedRingBuffer.create(cap): a zeroed buffer, write index 0.
RingFresh(cap) ==
  /\ capacity = cap /\ writeIndex = 0
  /\ data = [j \in 0..(cap - 1) |-> 0]
  /\ wr = NoWrite /\ rd = NoRead /\ target = <<>>
  /\ published = <<>> /\ written = 0
  /\ rdExpect = <<>> /\ rdOverlap = FALSE

\* The buffer after write() calls that published b samples in all, b >= cap:
\* the sample k places before the write index is called -k.
RingAged(cap, b) ==
  /\ capacity = cap /\ writeIndex = b
  /\ data = [j \in 0..(cap - 1) |-> -(CHOOSE k \in 1..cap : (b - k) % cap = j)]
  /\ wr = NoWrite /\ rd = NoRead /\ target = <<>>
  /\ published = [i \in 1..cap |-> i - cap - 1] /\ written = 0
  /\ rdExpect = <<>> /\ rdOverlap = FALSE

\* A readLatest() has begun and its caller is not yet done with target.
Reading == rd.pc \in {"loop", "done"}

\* write(samples) up to its loop: cap = i32[1], w = Atomics.load(i32, 0).
WriteBegin(len) ==
  /\ wr.pc = "idle" /\ written + len <= MaxWritten
  /\ wr' = [pc |-> "loop", w |-> writeIndex, samples |-> [k \in 1..len |-> written + k], i |-> 0]
  /\ written' = written + len
  /\ rdOverlap' = (rdOverlap \/ Reading)
  /\ UNCHANGED <<capacity, writeIndex, data, rd, target, published, rdExpect>>
  /\ UNCHANGED nonRingVars

\* Variant: w is not advanced in the loop.
WriteSlotFixed == RemOfSum(wr.w, 0, capacity)

WriteSlot == RemOfSum(wr.w, wr.i, capacity)

\* One turn of the loop: f32[w % cap] = samples[i]; w++.  A store to an index
\* that is no element of the array does nothing.
WriteStore ==
  /\ wr.pc = "loop" /\ wr.i < Len(wr.samples)
  /\ data' = IF WriteSlot \in DOMAIN data
             THEN [data EXCEPT ![WriteSlot] = wr.samples[wr.i + 1]]
             ELSE data
  /\ wr' = [wr EXCEPT !.i = wr.i + 1]
  /\ rdOverlap' = (rdOverlap \/ Reading)
  /\ UNCHANGED <<capacity, writeIndex, rd, target, published, written, rdExpect>>
  /\ UNCHANGED nonRingVars

\* Atomics.store(i32, 0, w).
WritePublish ==
  /\ wr.pc = "loop" /\ wr.i = Len(wr.samples)
  /\ writeIndex' = ToInt32(wr.w, Len(wr.samples))
  /\ published' = LastN(published \o wr.samples, capacity)
  /\ wr' = NoWrite
  /\ rdOverlap' = (rdOverlap \/ Reading)
  /\ UNCHANGED <<capacity, data, rd, target, written, rdExpect>>
  /\ UNCHANGED nonRingVars

\* readLatest(samples, target) up to its loop: capacity, available, writeIdx.
ReadBegin(n) ==
  /\ rd.pc = "idle"
  /\ rd' = [pc |-> "loop", samples |-> n, available |-> Min(n, capacity),
            writeIdx |-> writeIndex, i |-> 0]
  /\ target' = [k \in 1..n |-> Stale]
  /\ rdExpect' = ZeroPad(LastN(published, Min(n, capacity)), n)
  /\ rdOverlap' = (wr.pc = "loop")
  /\ UNCHANGED <<capacity, writeIndex, data, wr, published, written>>
  /\ UNCHANGED nonRingVars

\* Variant: the start index taken modulo capacity without adding capacity.
ReadSlotNoWrap == RemOfSum(rd.writeIdx - rd.available, rd.i, capacity)

\* idx = (start + i + capacity) % capacity, start = writeIdx - available.
ReadSlot == RemOfSum(rd.writeIdx, capacity - rd.available + rd.i, capacity)

\* One turn of the loop: target[target.length - available + i] = data[idx].
ReadCopy ==
  /\ rd.pc = "loop" /\ rd.i < rd.available
  /\ target' = [target EXCEPT ![Len(target) - rd.available + rd.i + 1] =
                  IF ReadSlot \in DOMAIN data THEN data[ReadSlot] ELSE NaN]
  /\ rd' = [rd EXCEPT !.i = rd.i + 1]
  /\ UNCHANGED <<capacity, writeIndex, data, wr, published, written, rdExpect, rdOverlap>>
  /\ UNCHANGED nonRingVars

\* After the loop: target.fill(0, 0, target.length - available).
ReadFinish ==
  /\ rd.pc = "loop" /\ rd.i = rd.available
  /\ target' = [k \in DOMAIN target |->
                  IF k <= Len(target) - rd.available THEN 0 ELSE target[k]]
  /\ rd' = [rd EXCEPT !.pc = "done"]
  /\ UNCHANGED <<capacity, writeIndex, data, wr, published, written, rdExpect, rdOverlap>>
  /\ UNCHANGED nonRingVars

\* The caller is done with target.
ReadReturn ==
  /\ rd.pc = "done"
  /\ rd' = NoRead /\ target' = <<>>
  /\ rdExpect' = <<>> /\ rdOverlap' = FALSE
  /\ UNCHANGED <<capacity, writeIndex, data, wr, published, written>>
  /\ UNCHANGED nonRingVars

\* ------------------------------------------------------------ utils/pitch
NoArgs == [midi |-> 0, transpose |-> 0, octaves |-> 0]

NoResult == [pc |-> NoPc, plain |-> NoPc, shifted |-> NoPc, summed |-> NoPc]

NoCall == callPc = "idle" /\ callArgs = NoArgs /\ callResult = NoResult

\* midiToPitchClass(midi, transpose) called; with it, for comparison,
\* midiToPitchClass(midi), midiToPitchClass(midiToPitchClass(midi) + 12 * octaves)
\* and midiToPitchClass(midi + transpose).
CallPitchClass ==
  /\ callPc = "called"
  /\ callPc' = "returned"
  /\ callResult' =
       [pc |-> midiToPitchClass(callArgs.midi, callArgs.transpose),
        plain |-> midiToPitchClass(callArgs.midi, 0),
        shifted |-> midiToPitchClass(midiToPitchClass(callArgs.midi, 0) + 12 * callArgs.octaves, 0),
        summed |-> midiToPitchClass(callArgs.midi + callArgs.transpose, 0)]
  /\ UNCHANGED callArgs
  /\ UNCHANGED nonCallVars

\* ------------------------------------------------------ BasicPitchAdapter
\* Variant: the input is laid, and cut, from the start of the window.
PrepareFromStart(audio) ==
  IF Len(audio) = MODEL_WINDOW_SAMPLES THEN audio
  ELSE IF Len(audio) > MODEL_WINDOW_SAMPLES THEN SubSeq(audio, 1, MODEL_WINDOW_SAMPLES)
  ELSE [k \in 1..MODEL_WINDOW_SAMPLES |-> IF k <= Len(audio) THEN audio[k] ELSE 0]

\* prepareWindow(audio): the array itself, its trailing subarray, or a new
\* zeroed array with audio set at offset MODEL_WINDOW_SAMPLES - audio.length.
prepareWindow(audio) ==
  IF Len(audio) = MODEL_WINDOW_SAMPLES THEN audio
  ELSE IF Len(audio) > MODEL_WINDOW_SAMPLES
  THEN SubSeq(audio, Len(audio) - MODEL_WINDOW_SAMPLES + 1, Len(audio))
  ELSE LET offset == MODEL_WINDOW_SAMPLES - Len(audio)
       IN [k \in 1..MODEL_WINDOW_SAMPLES |-> IF k <= offset THEN 0 ELSE audio[k - offset]]

\* prepareWindow(audio) called, as evaluateMono22k does before session.run.
CallPrepareWindow ==
  /\ callPc = "called"
  /\ callPc' = "returned"
  /\ callResult' = prepareWindow(callArgs.audio)
  /\ UNCHANGED callArgs
  /\ UNCHANGED nonCallVars

\* aggregateRecentNotes(buffer) called.
CallAggregate ==
  /\ callPc = "called"
  /\ callPc' = "returned"
  /\ callResult' = aggregateRecentNotes(callArgs.buffer)
  /\ UNCHANGED callArgs
  /\ UNCHANGED nonCallVars

\* ----------------------------------------------------------- specifications
\* A worker as useChordVerifier leaves it when start() returns: referenced,
\* INIT and a first SET_EXPECTED posted; its verdicts observed where posted.
SessionAt(payloads, now) ==
  /\ status = "listening"
  /\ acRef = TRUE /\ mediaStreamRef = TRUE /\ sourceNodeRef = TRUE
  /\ workletNodeRef = TRUE /\ ringBufferRef = TRUE /\ workerRef = TRUE
  /\ onmessage = FALSE
  /\ startPc = <<>> /\ orphans = NoOrphans
  /\ inbox \in { << InitMsg, SetExpectedMsg(p) >> : p \in payloads }
  /\ toMain = <<>>
  /\ wLife = "running"
  /\ FreshModuleAt(now) /\ FreshHistory
  /\ deliveredWhile = {}
  /\ stopsInRow = 0
  /\ RingFresh(RingCap)
  /\ NoCall
  /\ SongReady(MaxEvents)

Session(payloads) == SessionAt(payloads, 0)

WorkerStep(noteLists) ==
  \/ HandleInit
  \/ HandleSetExpected
  \/ AdapterInitOk
  \/ AdapterInitFail
  \/ TickDrop
  \/ TickIdle
  \/ TickStart
  \/ \E i \in DOMAIN inflight, notes \in noteLists : PassResolve(i, notes)
  \/ \E i \in DOMAIN inflight : PassReject(i)

\* Spec: the session within one millisecond of performance.now(), every
\* payload of the hook.
Init == Session(HookPayloads)

Next ==
  \/ \E p \in HookPayloads : SetExpected(p)
  \/ WorkerStep(NoteLists)

Spec == Init /\ [][Next]_vars

\* SpecTime: the session over several cooldown periods, framesConfirm at its
\* default, the guitarist holding E minor while the target changes.
HeldNotes == {EMinorNotes}

TimePayloads == {p \in HookPayloads : p.framesConfirm = DefaultFramesConfirm}

InitTime == Session(TimePayloads)

NextTime ==
  \/ \E p \in TimePayloads : SetExpected(p)
  \/ Advance
  \/ WorkerStep(HeldNotes)

SpecTime == InitTime /\ [][NextTime]_vars

\* SpecPolicy: sessions that differ in the spec, the policy and the
\* transposition posted at start; the guitarist plays the expected chord
\* transposeSemitones higher, the root in the bass or an octave up.
MajorTriad(root) ==
  [name |-> "major", pcs |-> << root, (root + 4) % 12, (root + 7) % 12 >>, K |-> 2]

SingleNote == [name |-> "E", pcs |-> <<4>>, K |-> 1]

\* Specs without K: required is min(2, |pcs|).
PowerChord == [name |-> "E5", pcs |-> <<4, 11>>, K |-> NoK]

OpenString == [name |-> "A", pcs |-> <<9>>, K |-> NoK]

PolicySpecs == {MajorTriad(root) : root \in 0..11} \cup {SingleNote, PowerChord, OpenString}

PolicyPayloads ==
  [expected : PolicySpecs, policy : {"K_OF_N", "BASS_PRIORITY"}, centsTol : CentsTolSet,
   framesConfirm : {DefaultFramesConfirm}, transposeSemitones : {0, 2},
   acceptInversions : {TRUE}]

\* The notes of spec played transpose semitones higher from C3 up, the root
\* lowest (up = 0) or the root an octave higher (up = 12).
Voicing(spec, transpose, up) ==
  LET root == (FirstPc(spec) + transpose) % 12
  IN [i \in DOMAIN spec.pcs |->
        [midi |-> 48 + root + ((spec.pcs[i] - spec.pcs[1] + 12) % 12) + (IF i = 1 THEN up ELSE 0),
         frac |-> 0, salience |-> 80]]

PlayedNotes == {Voicing(expected, transposeSemitones, up) : up \in {0, 12}}

InitPolicy == Session(PolicyPayloads)

NextPolicy == WorkerStep(PlayedNotes)

SpecPolicy == InitPolicy /\ [][NextPolicy]_vars

\* SpecTarget: sessions under INCLUDES_TARGET; of the expected chord the
\* guitarist plays all notes, the root alone, or all but the root.
TargetPayloads ==
  [expected : {MajorTriad(0), MajorTriad(7)}, policy : {"INCLUDES_TARGET"}, centsTol : CentsTolSet,
   framesConfirm : {DefaultFramesConfirm}, transposeSemitones : TransposeSet,
   acceptInversions : {TRUE}]

RootOnly(notes) == IF notes = <<>> THEN <<>> ELSE << notes[1] >>

NoRoot(notes) == IF notes = <<>> THEN <<>> ELSE Tail(notes)

PartNotes ==
  LET all == Voicing(expected, transposeSemitones, 0)
  IN {all, RootOnly(all), NoRoot(all)}

InitTarget == Session(TargetPayloads)

NextTarget == WorkerStep(PartNotes)

SpecTarget == InitTarget /\ [][NextTarget]_vars

\* SpecLive: the session of one E minor target with E minor held, the adapter
\* slower than the timer (ticks are dropped) but always returning; the event
\* loop runs every handler that is due.
LivePayloads == {p \in HookPayloads : p.expected = EMinor}

InitLive == Session(LivePayloads)

AdapterReturns == \E i \in DOMAIN inflight : PassResolve(i, EMinorNotes)

NextLive ==
  \/ HandleInit
  \/ HandleSetExpected
  \/ AdapterInitOk
  \/ Advance
  \/ TickDrop
  \/ TickStart
  \/ AdapterReturns

Scheduling ==
  /\ WF_vars(HandleInit) /\ WF_vars(HandleSetExpected)
  /\ WF_vars(AdapterInitOk) /\ WF_vars(AdapterReturns)
  /\ WF_vars(TickStart)

SpecLive == InitLive /\ [][NextLive]_vars /\ Scheduling

\* SpecInv: sessions with acceptInversions false under each policy, INIT
\* handled one clock step after the worker was created; the chord is played
\* with its root in the bass or with its third in the bass.
AllPolicies == {"K_OF_N", "INCLUDES_TARGET", "BASS_PRIORITY"}

InvPayloads ==
  [expected : {MajorTriad(0), MajorTriad(7)}, policy : AllPolicies, centsTol : CentsTolSet,
   framesConfirm : {DefaultFramesConfirm}, transposeSemitones : TransposeSet,
   acceptInversions : {FALSE}]

InitInv == SessionAt(InvPayloads, ClockStep)

NextInv == WorkerStep(PlayedNotes)

SpecInv == InitInv /\ [][NextInv]_vars

\* SpecCfg: the session with setExpected given any ChordSpec value, among
\* them one with no pitch class and one whose K exceeds its pitch classes.
EmptySpec == [name |-> "empty", pcs |-> <<>>, K |-> NoK]

OverK == [name |-> "E alone", pcs |-> <<4>>, K |-> 2]

CfgSpecs == {EMinor, EmptySpec, OverK}

CfgPayloads ==
  [expected : CfgSpecs, policy : PolicySet, centsTol : CentsTolSet,
   framesConfirm : {DefaultFramesConfirm}, transposeSemitones : TransposeSet,
   acceptInversions : {TRUE}]

InitCfg == Session(TimePayloads)

NextCfg ==
  \/ \E p \in CfgPayloads : SetExpected(p)
  \/ WorkerStep(HeldNotes)

SpecCfg == InitCfg /\ [][NextCfg]_vars

\* SpecSilent: sessions of any spec, policy and framesConfirm in which the
\* adapter finds no note in any window.
SilentPayloads ==
  [expected : CfgSpecs \cup {SingleNote}, policy : AllPolicies, centsTol : CentsTolSet,
   framesConfirm : FramesConfirmSet, transposeSemitones : TransposeSet,
   acceptInversions : {TRUE}]

InitSilent == Session(SilentPayloads)

NextSilent == WorkerStep({Silent})

SpecSilent == InitSilent /\ [][NextSilent]_vars

\* SpecCtl: the controller from its construction, with the worker it creates
\* listening to silence.
CtlPayloads == {p \in HookPayloads : p.expected = EMinor /\ p.framesConfirm = DefaultFramesConfirm}

\* useChordVerifier as constructed: no worker, nothing held.
HookIdle ==
  /\ status = "idle"
  /\ acRef = FALSE /\ mediaStreamRef = FALSE /\ sourceNodeRef = FALSE
  /\ workletNodeRef = FALSE /\ ringBufferRef = FALSE /\ workerRef = FALSE
  /\ onmessage = FALSE
  /\ startPc = <<>> /\ orphans = NoOrphans
  /\ inbox = <<>> /\ toMain = <<>>
  /\ wLife = "none"
  /\ FreshModule /\ FreshHistory
  /\ deliveredWhile = {}
  /\ stopsInRow = 0

\* The application with its song loaded, nothing started and nothing called.
AppIdle == HookIdle /\ NoCall /\ SongReady(MaxEvents)

InitCtl == AppIdle /\ RingFresh(RingCap)

NextCtl ==
  \/ StartBegin
  \/ \E i \in DOMAIN startPc : StartMediaResolved(i)
  \/ \E i \in DOMAIN startPc, p \in CtlPayloads : StartModuleResolved(i, p)
  \/ \E i \in DOMAIN startPc : StartRejected(i)
  \/ Stop
  \/ \E p \in CtlPayloads : SetExpected(p)
  \/ MainOnMessage
  \/ HandleInit
  \/ HandleSetExpected
  \/ HandleStop
  \/ AdapterInitOk
  \/ AdapterInitFail
  \/ TickDrop
  \/ TickIdle
  \/ TickStart
  \/ \E i \in DOMAIN inflight : PassResolve(i, Silent)
  \/ \E i \in DOMAIN inflight : PassReject(i)
  \/ WorkerExit

SpecCtl == InitCtl /\ [][NextCtl]_vars

\* SpecPitch: midiToPitchClass on integer arguments of either sign.
PitchArgs ==
  [midi : (-MaxMidi)..MaxMidi, transpose : (-MaxMidi)..MaxMidi, octaves : (-MaxOctaves)..MaxOctaves]

InitPitch ==
  /\ HookIdle /\ RingFresh(RingCap) /\ SongReady(MaxEvents)
  /\ callPc = "called" /\ callArgs \in PitchArgs /\ callResult = NoResult

NextPitch == CallPitchClass

SpecPitch == InitPitch /\ [][NextPitch]_vars

\* SpecScreen: PracticeScreen listening with its song loaded, the player
\* holding E minor: the worker, its verdicts delivered to registerResult, and
\* the effects that follow the cursor.
InitScreen ==
  /\ status = "listening"
  /\ acRef = TRUE /\ mediaStreamRef = TRUE /\ sourceNodeRef = TRUE
  /\ workletNodeRef = TRUE /\ ringBufferRef = TRUE /\ workerRef = TRUE
  /\ onmessage = TRUE
  /\ startPc = <<>> /\ orphans = NoOrphans
  /\ inbox = << InitMsg, SetExpectedMsg(ScreenPayload(SongChord(0))) >>
  /\ toMain = <<>>
  /\ wLife = "running"
  /\ FreshModule /\ FreshHistory
  /\ deliveredWhile = {}
  /\ stopsInRow = 0
  /\ RingFresh(RingCap)
  /\ NoCall
  /\ SongReady(MaxEvents)

NextScreen ==
  \/ HandleInit
  \/ HandleSetExpected
  \/ HandleStop
  \/ AdapterInitOk
  \/ TickDrop
  \/ TickIdle
  \/ TickStart
  \/ \E i \in DOMAIN inflight : PassResolve(i, EMinorNotes)
  \/ WorkerExit
  \/ MainOnMessage
  \/ RunEffects

SpecScreen == InitScreen /\ [][NextScreen]_vars

\* SpecTol: the session listening to silence, setExpected called with a
\* tolerance of 0 cents, on either side of 25 and of 50.
TolSet == {0, 25, 26, 50, 51}

TolPayloads ==
  [expected : {EMinor}, policy : PolicySet, centsTol : TolSet,
   framesConfirm : {DefaultFramesConfirm}, transposeSemitones : TransposeSet,
   acceptInversions : {TRUE}]

InitTol == Session(TolPayloads)

NextTol ==
  \/ \E p \in TolPayloads : SetExpected(p)
  \/ WorkerStep({Silent})

SpecTol == InitTol /\ [][NextTol]_vars

\* SpecWindow: prepareWindow on buffers shorter than the window, of its
\* length and longer, of non-zero samples.
WindowArgs == [audio : SeqsUpTo({1, 2}, MaxAudio)]

InitWindow ==
  /\ HookIdle /\ RingFresh(RingCap) /\ SongReady(MaxEvents)
  /\ callPc = "called" /\ callArgs \in WindowArgs /\ callResult = NoResult

NextWindow == CallPrepareWindow

SpecWindow == InitWindow /\ [][NextWindow]_vars

\* SpecAgg: aggregateRecentNotes on up to MaxLists lists of up to MaxNotes
\* notes: two notes either side of a half, and one on a whole number.
AggNotes ==
  { [midi |-> 60, frac |-> 40, salience |-> 20],
    [midi |-> 60, frac |-> 50, salience |-> 80],
    [midi |-> 61, frac |-> 0, salience |-> 40] }

AggArgs == [buffer : SeqsUpTo(SeqsUpTo(AggNotes, MaxNotes), MaxLists)]

InitAgg ==
  /\ HookIdle /\ RingFresh(RingCap) /\ SongReady(MaxEvents)
  /\ callPc = "called" /\ callArgs \in AggArgs /\ callResult = NoResult

NextAgg == CallAggregate

SpecAgg == InitAgg /\ [][NextAgg]_vars

\* SpecPractice: the practice session from its construction, its song of up
\* to MaxEvents events, given verdicts of every type.
InitPractice == HookIdle /\ NoCall /\ RingFresh(RingCap) /\ SongLoading

NextPractice ==
  \/ \E n \in 0..MaxEvents : SongLoaded(n)
  \/ SongFailed
  \/ ResetSession
  \/ \E type \in VerdictTypes : RegisterResult(type)

SpecPractice == InitPractice /\ [][NextPractice]_vars

\* SpecRing: one ring buffer, new or a step before the 32-bit index is
\* exhausted, written by the worklet and read by the worker, step by step.
InitRing ==
  /\ AppIdle
  /\ RingFresh(RingCap) \/ RingAged(RingCap, MaxInt32 - 1)

NextRing ==
  \/ \E len \in 1..MaxBlock : WriteBegin(len)
  \/ WriteStore
  \/ WritePublish
  \/ \E n \in 1..(capacity + 1) : ReadBegin(n)
  \/ ReadCopy
  \/ ReadFinish
  \/ ReadReturn

SpecRing == InitRing /\ [][NextRing]_vars

\* ------------------------------------------------------------------ claims
\* C1: at most one inference pass is in flight at any time; isProcessing is
\* set exactly while a pass is suspended at the await, so a timer tick that
\* fires meanwhile starts nothing and is not kept for later.
C1_SingleFlight ==
  /\ Len(inflight) <= 1
  /\ isProcessing <=> (inflight # <<>>)

C1_Witness == droppedTick /\ Len(inflight) = 1 /\ isProcessing

\* C2: a CHORD_MATCH is posted only by an evaluation that completes a run of
\* at least framesConfirm passing evaluations in a row, the run counted since
\* the last failing evaluation, the last CHORD_MATCH and the last SET_EXPECTED
\* handled.
C2_MatchAfterRun == lastMatch # NoMatch => lastMatch.run >= lastMatch.frames

C2_Witness ==
  /\ lastMatch # NoMatch
  /\ lastMatch.frames = DefaultFramesConfirm
  /\ lastMatch.run = DefaultFramesConfirm

\* C3: every evaluation uses the spec that was in force when its pass
\* started.  (The claim as stated; the worker violates it.)
C3_EvaluatedAgainstStartSpec == lastEval.usedSpec = lastEval.startSpec

\* C4: two consecutive CHORD_MISS verdicts are at least missCooldownMs apart.
C4_MissCooldown ==
  (lastMiss # NoMiss /\ prevMissT # NoTime) => lastMiss.tMs - prevMissT >= missCooldownMs

C4_Witness == lastMiss # NoMiss /\ prevMissT # NoTime

\* C5: in a CHORD_MISS verdict, matched and missing partition the pitch
\* classes of the spec the evaluation used.
C5_MissPartition ==
  lastMiss # NoMiss =>
    /\ Range(lastMiss.matched) \cup Range(lastMiss.missing) = Range(lastMiss.spec.pcs)
    /\ Range(lastMiss.matched) \cap Range(lastMiss.missing) = {}

C5_Witness == lastMiss # NoMiss /\ lastMiss.matched # <<>> /\ lastMiss.missing # <<>>

Stamps ==
  SelectSeq(<<prevT>> \o [i \in DOMAIN out |-> out[i].tMs], LAMBDA t : t # NoTime)

\* C6: the timestamps of the verdicts NOTES, CHORD_MATCH, CHORD_MISS and TICK
\* are non-decreasing in the order the worker posts them.
C6_StampsNonDecreasing ==
  \A i \in 1..(Len(Stamps) - 1) : Stamps[i] <= Stamps[i + 1]

C6_Witness ==
  /\ prevT # NoTime /\ Len(out) >= 2
  /\ prevT > 0 /\ out[1].tMs = prevT /\ Last(out).tMs > prevT

\* C7: from the step that handles SET_EXPECTED until the next evaluation,
\* confirmCounter is 0 and expected is the new spec; and confirmCounter never
\* exceeds the passing evaluations made since that step.
C7_AtomicReset ==
  /\ lastSet # NoSet => confirmCounter = 0 /\ expected = lastSet.payload.expected
  /\ confirmCounter <= passRun

C7_Witness ==
  /\ lastSet # NoSet /\ lastSet.found > 0
  /\ lastSet.payload.expected = AMinor /\ inflight # <<>>

\* C8: once the worker has handled STOP it starts no pass; a pass in flight
\* may still complete.
C8_NoPassAfterStop == ~startedAfterStop

C8_Witness == stopHandled /\ completedAfterStop

C10_DeliveredOnlyListening == deliveredWhile \subseteq {"listening"}

\* C11: a pass whose inference rejects posts exactly one ERROR verdict,
\* lowers isProcessing and leaves the interval running, so that the next
\* timer tick starts a new pass.
C11_RejectedPassRecovers ==
  [][(Len(inflight') < Len(inflight) /\ out' # <<>> /\ out'[1].type = "ERROR")
       => /\ Len(out') = 1
          /\ ~isProcessing'
          /\ tickHandle' = tickHandle
          /\ (tickHandle /\ wLife = "running") => (Alive /\ tickHandle /\ CanStartPass /\ reader /\ expected # NullSpec)']_vars

C11_Witness ==
  /\ session = "ok" /\ out # <<>> /\ out[1].type = "ERROR"
  /\ inflight = <<>> /\ ~isProcessing /\ tickHandle /\ recentEvents # <<>>

\* C12: once adapter initialisation has failed and the controller shows
\* status error, capture and scheduling are torn down: no worker is referenced
\* or running and no audio context, stream or node is held.  (The claim as
\* stated; the controller violates it.)
C12_FatalErrorTearsDown ==
  (status = "error" /\ session = "failed") =>
    /\ ~workerRef /\ wLife # "running"
    /\ ~acRef /\ ~mediaStreamRef /\ ~sourceNodeRef /\ ~workletNodeRef

ValidSpec(spec) == Len(spec.pcs) > 0 /\ (spec.K = NoK \/ spec.K <= Len(spec.pcs))

\* C13: a chord spec with no pitch class, or with K above the number of its
\* pitch classes, never becomes the worker's expected spec: the worker's
\* state is changed by valid specs only.  (The claim as stated; setExpected
\* and the worker violate it.)
C13_InvalidSpecRejected == expected = NullSpec \/ ValidSpec(expected)

\* A readLatest() that has returned, asked for at most capacity samples, with
\* no step of write() since it began, the write index not beyond 2^31 - 1.
QuietRead ==
  /\ rd.pc = "done" /\ ~rdOverlap
  /\ rd.samples <= capacity /\ rd.writeIdx >= 0

C15_ReadLatestZeroPads ==
  (QuietRead /\ Len(published) < rd.samples) =>
    /\ \A k \in 1..(rd.samples - Len(published)) : target[k] = 0
    /\ SubSeq(target, rd.samples - Len(published) + 1, rd.samples) = published

C15_Witness ==
  /\ QuietRead /\ published # <<>> /\ Len(published) < rd.samples
  /\ target[1] = 0 /\ Last(target) = Last(published)

\* C16: no step lowers the stored write index, and every store of write()
\* addresses a slot of the buffer.  (The claim as stated; write() violates it
\* when the index passes 2^31 - 1.)
C16_WriteIndexMonotone ==
  [][/\ writeIndex' >= writeIndex
     /\ (wr.pc = "loop" /\ wr.i < Len(wr.samples)) => WriteSlot \in DOMAIN data]_vars

\* C17: whatever steps of write() run meanwhile, a readLatest(n, out) that
\* leaves at least one block of slack (n + MaxBlock <= capacity) returns the
\* samples at positions w-n .. w-1 of the stream published when it loaded the
\* write index w.  (The claim as stated; readLatest violates it.)
C17_ConsistentSnapshot ==
  (rd.pc = "done" /\ rd.writeIdx >= 0 /\ rd.samples + MaxBlock <= capacity)
    => target = rdExpect

\* C18: under K_OF_N (inversions accepted, as the application always sends)
\* an evaluated tick passes exactly when at least k of the expected pitch
\* classes are among the detected ones, k being the spec's K or, without K,
\* min(2, |pcs|); for a single pitch class with K = 1 that is its presence.
FoundOf(eval) == Range(eval.usedSpec.pcs) \cap eval.pcs

KOf(spec) == IF spec.K = NoK THEN (IF Len(spec.pcs) < 2 THEN Len(spec.pcs) ELSE 2) ELSE spec.K

C18_KOfN ==
  (lastEval # NoEval /\ lastEval.policy = "K_OF_N" /\ acceptInversions) =>
    /\ lastEval.passes <=> Cardinality(FoundOf(lastEval)) >= KOf(lastEval.usedSpec)
    /\ lastEval.usedSpec = SingleNote => (lastEval.passes <=> 4 \in lastEval.pcs)

C18_Witness ==
  /\ lastEval # NoEval /\ lastEval.policy = "K_OF_N" /\ acceptInversions
  /\ lastEval.usedSpec = SingleNote /\ lastEval.passes /\ lastEval.pcs = {4}

C18_WitnessFail ==
  /\ lastEval # NoEval /\ lastEval.policy = "K_OF_N"
  /\ lastEval.usedSpec = MajorTriad(0) /\ ~lastEval.passes /\ Cardinality(FoundOf(lastEval)) = 1

\* C19: under BASS_PRIORITY an evaluated tick passes exactly when the
\* K_OF_N condition holds and the lowest detected note has the pitch class
\* of the spec's root, whichever of 0..11 the root is.  (The claim as
\* stated; evaluateChord violates it for root 0.)
C19_BassPriority ==
  (lastEval # NoEval /\ lastEval.policy = "BASS_PRIORITY" /\ acceptInversions) =>
    (lastEval.passes <=>
       /\ Cardinality(FoundOf(lastEval)) >= KOf(lastEval.usedSpec)
       /\ lastEval.lowestPc = lastEval.usedSpec.pcs[1])

\* C20: with transposeSemitones = 2 and C major {0, 4, 7}, K = 2, expected
\* under K_OF_N, every evaluated tick of a session in which D, F# and A are
\* detected throughout passes the policy (and so a Match follows after
\* framesConfirm ticks).  (The claim as stated; evaluateChord violates it.)
DMajorHeard(eval) == {eval.heard[i].midi % 12 : i \in DOMAIN eval.heard} = {2, 6, 9}

C20_TransposedMatch ==
  (/\ lastEval # NoEval /\ lastEval.policy = "K_OF_N" /\ lastEval.transpose = 2
   /\ lastEval.usedSpec = MajorTriad(0) /\ DMajorHeard(lastEval)) => lastEval.passes

\* C21: while the chord passes on every evaluated tick and no SET_EXPECTED
\* is handled, a CHORD_MATCH once posted is not followed by a second one.
\* (The claim as stated; evaluateChord violates it.)
C21_SingleMatch ==
  [][(matchedRun /\ Len(inflight') < Len(inflight))
       => \A i \in DOMAIN out' : out'[i].type # "CHORD_MATCH"]_vars

\* C22: with acceptInversions false an evaluated tick passes only if the
\* selected policy holds and the lowest detected note has the pitch class of
\* the spec's root; a tick with every expected pitch class detected over
\* another bass does not pass, leaves the counter at 0, posts no CHORD_MATCH,
\* and the CHORD_MISS it posts has nothing missing.
PolicyHolds(eval) ==
  LET kOfN == Cardinality(FoundOf(eval)) >= KOf(eval.usedSpec)
      root == eval.usedSpec.pcs[1]
  IN CASE eval.policy = "INCLUDES_TARGET" -> root \in eval.pcs
       [] eval.policy = "BASS_PRIORITY" -> kOfN /\ eval.lowestPc = root
       [] OTHER -> kOfN

InvertedChord(eval) ==
  /\ eval # NoEval /\ ~eval.inversions
  /\ Range(eval.usedSpec.pcs) \subseteq eval.pcs
  /\ eval.lowestPc # eval.usedSpec.pcs[1]

Posted(type) == \E i \in DOMAIN out : out[i].type = type

C22_InversionsRejected ==
  /\ (lastEval # NoEval /\ ~lastEval.inversions /\ lastEval.passes)
       => (PolicyHolds(lastEval) /\ lastEval.lowestPc = lastEval.usedSpec.pcs[1])
  /\ InvertedChord(lastEval)
       => /\ ~lastEval.passes /\ confirmCounter = 0 /\ ~Posted("CHORD_MATCH")
          /\ Posted("CHORD_MISS") => lastMiss.missing = <<>>

C22_Witness ==
  /\ InvertedChord(lastEval) /\ lastEval.policy = "K_OF_N"
  /\ Posted("CHORD_MISS") /\ lastMiss.missing = <<>> /\ Len(lastMiss.matched) = 3

\* C23: when the adapter returns no notes on every tick, no CHORD_MATCH is
\* posted, whatever spec, policy and framesConfirm were set.  (The claim as
\* stated; evaluateChord violates it for a spec without pitch classes.)
C23_SilenceNeverMatches == \A i \in DOMAIN out : out[i].type # "CHORD_MATCH"

\* C24: for integers midi and transpose of either sign midiToPitchClass
\* returns the value in 0..11 congruent to midi + transpose modulo 12; adding
\* whole octaves to a pitch class gives the same pitch class back, and the
\* transposition may as well be added to midi beforehand.
C24_PitchClassRange ==
  callPc = "returned" =>
    /\ callResult.pc \in 0..11
    /\ (callArgs.midi + callArgs.transpose - callResult.pc) % 12 = 0
    /\ callResult.shifted = callResult.plain
    /\ callResult.pc = callResult.summed

C24_Witness ==
  /\ callPc = "returned" /\ callArgs.midi + callArgs.transpose < 0 /\ callArgs.octaves < 0
  /\ callResult.pc = 11 /\ callResult.plain = 1 /\ callResult.shifted = 1

\* C25: with ticks dropped while a pass is in flight, a chord that passes on
\* every completed pass is eventually answered by a CHORD_MATCH, the adapter
\* always returning.
C25_MatchDespiteOverrun == <>Posted("CHORD_MATCH")

C25_Witness ==
  /\ Posted("CHORD_MATCH") /\ lastEval.matchAfterDrop /\ lastMatch.frames = DefaultFramesConfirm
  /\ lastEval.usedSpec = EMinor

\* C26: the step that completes an inference posts NOTES first, then at most
\* one of CHORD_MATCH and CHORD_MISS, then TICK, one of each and nothing
\* else; no other step (a dropped tick, a rejected inference) posts a TICK.
Count(evs, type) == Len(SelectSeq(evs, LAMBDA v : v.type = type))

C26_OneTickPerInference ==
  [][IF Len(inflight') < Len(inflight) /\ lastEval' # NoEval
     THEN /\ Len(out') \in {2, 3}
          /\ out'[1].type = "NOTES" /\ out'[Len(out')].type = "TICK"
          /\ Count(out', "NOTES") = 1 /\ Count(out', "TICK") = 1
          /\ Len(out') = 3 => out'[2].type \in {"CHORD_MATCH", "CHORD_MISS"}
     ELSE out' = out \/ Count(out', "TICK") = 0]_vars

C26_Witness ==
  /\ lastEval # NoEval /\ Len(out) = 3
  /\ out[1].type = "NOTES" /\ out[2].type = "CHORD_MISS" /\ out[3].type = "TICK"

C27_WitnessFail ==
  /\ lastEval # NoEval /\ lastEval.policy = "INCLUDES_TARGET" /\ ~lastEval.passes
  /\ Cardinality(FoundOf(lastEval)) = 2

\* C28: status is listening only when the worker is referenced, its interval
\* is running and the adapter's session has been created.  (The claim as
\* stated; start() violates it.)
C28_ListeningAfterWarmUp ==
  status = "listening" => (workerRef /\ tickHandle /\ session = "ok")

\* C29: a CHORD_MATCH that follows another one, the chord sustained and no
\* SET_EXPECTED handled between them, has a timestamp at least
\* MATCH_DEBOUNCE_MS after it.  (The claim as stated, for the case the
\* debounce is documented for; evaluateChord violates it.)
C29_MatchDebounce ==
  [][(Len(inflight') < Len(inflight) /\ lastMatchT # NoTime)
       => \A i \in DOMAIN out' :
            out'[i].type = "CHORD_MATCH" => out'[i].tMs - lastMatchT >= MATCH_DEBOUNCE_MS]_vars


\* C30: the practice cursor moves forward only when a CHORD_MATCH is
\* registered, then by exactly one event and never past the last one; a
\* CHORD_MATCH registered at the last index leaves the index where it is and
\* marks the session complete; no other verdict moves the cursor.
MatchRegistered == registered' = "CHORD_MATCH" /\ stats'.matches = stats.matches + 1

C30_CursorAdvance ==
  [][/\ currentIndex' > currentIndex =>
          (MatchRegistered /\ currentIndex' = currentIndex + 1 /\ currentIndex' <= totalEvents - 1)
     /\ (MatchRegistered /\ currentIndex + 1 < totalEvents) =>
          (currentIndex' = currentIndex + 1 /\ isComplete' = isComplete)
     /\ (MatchRegistered /\ currentIndex + 1 >= totalEvents) =>
          (currentIndex' = currentIndex /\ isComplete')
     /\ (stats' # stats /\ stats' # NoStats /\ ~MatchRegistered) =>
          (currentIndex' = currentIndex /\ isComplete' = isComplete)]_vars

C30_Witness ==
  /\ registered = "CHORD_MATCH" /\ isComplete
  /\ totalEvents = MaxEvents /\ currentIndex = totalEvents - 1
  /\ stats.matches = MaxEvents /\ stats.attempts > stats.matches

\* C31: the tick history holds at most 5 note lists; only a completed
\* inference changes it, appending its note list at the end and, when that
\* makes six, dropping the oldest, so that it is always the note lists of the
\* latest completed inferences in arrival order.
PassCompleted == Len(inflight') < Len(inflight) /\ lastEval' # NoEval

C31_HistoryFifo ==
  [][/\ Len(recentEvents') <= 5
     /\ IF PassCompleted
          THEN /\ Last(recentEvents') = lastEval'.heard
               /\ IF Len(recentEvents) < 5
                    THEN recentEvents' = Append(recentEvents, lastEval'.heard)
                    ELSE recentEvents' = Append(Tail(recentEvents), lastEval'.heard)
          ELSE recentEvents' = recentEvents]_vars

C31_Witness ==
  /\ lastEval # NoEval /\ lastEval.shifted
  /\ Len(recentEvents) = 5
  /\ recentEvents[5] = lastEval.heard
  /\ recentEvents[1] # recentEvents[5]

\* C32: the aggregator returns exactly one note for each distinct rounded
\* MIDI value that occurs in the lists it is given, none twice and none
\* missing, and the salience of each is the sum of the saliences of the notes
\* rounding to that value divided by their number.
Positions(buffer) == {p \in (DOMAIN buffer) \X (1..(MaxNotes + 1)) : p[2] \in DOMAIN buffer[p[1]]}

Nearest(note) == CHOOSE k \in {note.midi, note.midi + 1} : 100 * k - 50 <= 100 * note.midi + note.frac /\ 100 * note.midi + note.frac < 100 * k + 50

RECURSIVE SalienceSum(_, _)
SalienceSum(buffer, at) ==
  IF at = {} THEN 0
  ELSE LET p == CHOOSE q \in at : TRUE
       IN buffer[p[1]][p[2]].salience + SalienceSum(buffer, at \ {p})

C32_OneNotePerKey ==
  callPc = "returned" =>
    LET buffer == callArgs.buffer
        keys == {Nearest(buffer[p[1]][p[2]]) : p \in Positions(buffer)}
    IN /\ {n.midi : n \in callResult} = keys
       /\ Cardinality(callResult) = Cardinality(keys)
       /\ \A n \in callResult :
            LET at == {p \in Positions(buffer) : Nearest(buffer[p[1]][p[2]]) = n.midi}
            IN n.den = Cardinality(at) /\ n.num = SalienceSum(buffer, at)

C32_Witness ==
  /\ callPc = "returned"
  /\ Len(callArgs.buffer) = 2
  /\ callResult = { [midi |-> 60, num |-> 20, den |-> 1], [midi |-> 61, num |-> 200, den |-> 3] }

\* C33: once a SET_EXPECTED is handled the salience threshold is the lookup
\* of its centsTol, 0.4 up to 25 cents, 0.3 up to 50 and 0.2 above, whatever
\* the threshold was before.
Lookup(centsTol) == IF centsTol <= 25 THEN 40 ELSE IF centsTol <= 50 THEN 30 ELSE 20

C33_ThresholdLookup == lastSet # NoSet => salienceThreshold = Lookup(lastSet.payload.centsTol)

\* The same for the tolerances other than 0: the lookup is applied.
C33_NonZeroLookup ==
  (lastSet # NoSet /\ lastSet.payload.centsTol # 0) => salienceThreshold = Lookup(lastSet.payload.centsTol)

\* C34: the buffer the adapter hands to the model has exactly
\* MODEL_WINDOW_SAMPLES samples: the input's trailing samples fill its end in
\* their order, and what a shorter input leaves free at the front is zero; an
\* input of exactly that length is handed over as it is.
C34_WindowPrepared ==
  callPc = "returned" =>
    LET audio == callArgs.audio
        window == callResult
        taken == IF Len(audio) < MODEL_WINDOW_SAMPLES THEN Len(audio) ELSE MODEL_WINDOW_SAMPLES
    IN /\ Len(window) = MODEL_WINDOW_SAMPLES
       /\ \A j \in 0..(taken - 1) : window[MODEL_WINDOW_SAMPLES - j] = audio[Len(audio) - j]
       /\ \A k \in 1..(MODEL_WINDOW_SAMPLES - taken) : window[k] = 0
       /\ Len(audio) = MODEL_WINDOW_SAMPLES => window = audio

C34_Witness ==
  /\ callPc = "returned"
  /\ Len(callArgs.audio) = 2 /\ callArgs.audio[1] # callArgs.audio[2]
  /\ callResult[1] = 0
  /\ SubSeq(callResult, MODEL_WINDOW_SAMPLES - 1, MODEL_WINDOW_SAMPLES) = callArgs.audio

C34_WitnessLonger ==
  /\ callPc = "returned"
  /\ Len(callArgs.audio) = MaxAudio /\ callArgs.audio[1] # callArgs.audio[MaxAudio]
  /\ callResult = SubSeq(callArgs.audio, MaxAudio - MODEL_WINDOW_SAMPLES + 1, MaxAudio)

\* C35: while no expected chord has been set since the worker started, a
\* timer tick changes nothing: no pass is started (no window read, no
\* inference), the tick history stays empty, nothing is evaluated and no NOTES,
\* TICK, CHORD_MATCH or CHORD_MISS is posted.
C35_IdleTicksNoOp ==
  [][/\ (idleTick' /\ ~idleTick) =>
          (expected = NullSpec /\ UNCHANGED <<wVars, chanVars, emitVars, evalVars, ringVars>>)
     /\ expected' = NullSpec =>
          /\ inflight' = <<>> /\ ~isProcessing'
          /\ recentEvents' = <<>> /\ lastEval' = NoEval
          /\ confirmCounter' = 0 /\ lastMissTs' = 0
          /\ \A i \in DOMAIN out' : out'[i].type = "ERROR"]_vars

C35_Witness ==
  /\ idleTick /\ expected = NullSpec
  /\ reader /\ tickHandle /\ session = "ok"
  /\ inbox # <<>> /\ Head(inbox).type = "SET_EXPECTED"
  /\ inflight = <<>> /\ recentEvents = <<>> /\ out = <<>>

\* C36: whenever the cursor advances, the CHORD_MATCH consumed was computed by
\* the worker for the chord of the event the cursor pointed at; a CHORD_MATCH
\* computed for the previous target does not advance the cursor again.
C36_AdvanceForTarget ==
  [][currentIndex' > currentIndex =>
       (toMain # <<>> /\ Head(toMain).type = "CHORD_MATCH" /\ Head(toMain).spec = SongChord(currentIndex))]_vars

\* C37: when a start() settles during whose awaits stop() was called, it
\* leaves status other than listening, no worker running and no media stream
\* or audio context held.  (The claim as stated; start() violates it.)
C37_StoppedStartReleases ==
  [][\A i \in DOMAIN startPc :
       (startPc[i].stopped /\ startPc' = Without(startPc, i)) =>
         (status' # "listening" /\ wLife' # "running" /\ ~mediaStreamRef' /\ ~acRef')]_vars

\* C38: at most one worker and one media stream are alive, and each alive one
\* is the one its ref points at.  (The claim as stated; overlapping start()
\* calls violate it.)
C38_OneOfEach == ~orphans.worker /\ ~orphans.stream /\ (wLife = "running" => workerRef)

\* C39: the step in which the worker handles SET_EXPECTED leaves lastMissTs
\* and the tick history as they were, so the Miss cooldown still counts from
\* the Miss before the switch and the ticks heard before it are aggregated for
\* the new target.
SetExpectedHandled ==
  /\ inbox # <<>> /\ Head(inbox).type = "SET_EXPECTED"
  /\ inbox' = Tail(inbox) /\ wLife' = wLife

C39_SetExpectedKeepsHistory ==
  [][SetExpectedHandled => (lastMissTs' = lastMissTs /\ recentEvents' = recentEvents)]_vars

C39_Witness ==
  /\ lastSet # NoSet /\ lastSet.found > 0 /\ confirmCounter = 0 /\ passRun = 0
  /\ recentEvents # <<>> /\ Last(recentEvents) # <<>> /\ lastMissTs > 0
  /\ lastEval # NoEval /\ lastSet.payload.expected # lastEval.usedSpec

\* C40: a timer tick dropped while a pass is in flight, and a pass whose
\* inference rejects, leave confirmCounter, lastMissTs and the tick history as
\* they were and post neither CHORD_MATCH nor CHORD_MISS: the dropped tick
\* posts nothing, the rejected pass only its ERROR.
TickDropped == ~droppedTick /\ droppedTick'

PassRejected == Len(inflight') < Len(inflight) /\ out' # <<>> /\ out'[1].type = "ERROR"

C40_NoPassNoEffect ==
  [][(TickDropped \/ PassRejected) =>
       /\ confirmCounter' = confirmCounter
       /\ lastMissTs' = lastMissTs
       /\ recentEvents' = recentEvents
       /\ TickDropped => UNCHANGED <<out, toMain>>
       /\ \A i \in DOMAIN out' : PassRejected => out'[i].type \notin {"CHORD_MATCH", "CHORD_MISS"}
       /\ \A i \in (Len(toMain) + 1)..Len(toMain') : toMain'[i].type \notin {"CHORD_MATCH", "CHORD_MISS"}]_vars

C40_Witness ==
  /\ out # <<>> /\ out[1].type = "ERROR" /\ session = "ok" /\ inflight = <<>>
  /\ confirmCounter > 0 /\ lastMissTs > 0 /\ recentEvents # <<>> /\ Last(recentEvents) # <<>>

C40_WitnessDropped ==
  /\ droppedTick /\ inflight # <<>>
  /\ confirmCounter > 0 /\ lastMissTs > 0 /\ recentEvents # <<>> /\ Last(recentEvents) # <<>>

====
